---- MODULE Spec2Model ----
(***************************************************************************)
(* Chalkit: an in-memory hierarchical store with path-addressed mutations  *)
(* and snapshot/rollback batches.                                          *)
(*                                                                         *)
(* Two revisions of the class are modelled side by side:                   *)
(*   "v1"  src/src/Chalkit.ts      (executeOperation switch, batch)        *)
(*   "v2"  src/unnamed/part_000    (getTarget + one method per operation,  *)
(*                                  batch, scribe, scribeBatch); without a *)
(*                                  mutator it is src/unnamed/part_001.    *)
(*                                                                         *)
(* Strings are sequences of tokens; the divider and the marker are tokens  *)
(* of their own, so that String.split is computed, not assumed.            *)
(* JavaScript values are tagged records:                                   *)
(*   [t |-> "s", v |-> name]            a scalar (number, boolean, null)   *)
(*   [t |-> "u"]                        undefined                          *)
(*   [t |-> "m", o, kv]                 a plain object, kv: key -> value   *)
(*   [t |-> "a", o, el, kv]             an array, el its elements, kv the  *)
(*                                      non-index properties set on it     *)
(* o is the object's origin: 0 for an object allocated by the library (or  *)
(* already in the store at construction), 1 for an object the caller       *)
(* passed in as (part of) a payload.  Two composite values are the same    *)
(* object only if they are the same caller object.                         *)
(*                                                                         *)
(* Keys range over ordinary property names; names inherited from           *)
(* Object.prototype are outside the key universe of the model.             *)
(*                                                                         *)
(* State: rev is the revision of the instance, store its store, and, of    *)
(* the last call, pre the store before it, call its method and arguments   *)
(* as passed (call.touched: the caller has since written into the objects  *)
(* it passed), err the message of the error it raised (<<>> if none), n    *)
(* the number of elementary calls made.  mutator is the hook the instance  *)
(* was constructed with ("none" if absent), old the object the instance    *)
(* owned as its store before setStore replaced it (undefined if it never   *)
(* did), pending the updaters a deferring hook has been handed and has not *)
(* run yet.  Spec is the machine of the elementary calls, SpecBatch the    *)
(* machine of batch and scribeBatch on an instance just constructed,       *)
(* SpecScribe that of scribe calls, SpecHook that of calls through a hook  *)
(* that calls its updater at once or never, SpecDeferred that of a batch   *)
(* through a hook that calls the updaters after the batch has returned.    *)
(***************************************************************************)
EXTENDS Integers, Sequences, FiniteSets, TLC

VARIABLES rev, mutator, store, old, pending, pre, call, err, n

vars == <<rev, mutator, store, old, pending, pre, call, err, n>>

(* ------------------------------ bounds --------------------------------- *)

MaxOps == 2

MaxSteps == 2

(* ------------------------------ strings -------------------------------- *)

DIV == "."

MARK == "$"

Str(tok) == <<tok>>

RECURSIVE split(_, _)
split(s, sep) ==
  IF \A i \in 1..Len(s) : s[i] # sep
    THEN <<s>>
    ELSE LET i == CHOOSE j \in 1..Len(s) :
                    s[j] = sep /\ \A m \in 1..(j - 1) : s[m] # sep
         IN  <<SubSeq(s, 1, i - 1)>> \o split(SubSeq(s, i + 1, Len(s)), sep)

Front(s) == SubSeq(s, 1, Len(s) - 1)

Last(s) == s[Len(s)]

(* ------------------------------ values --------------------------------- *)

S(v) == [t |-> "s", v |-> v]

U == [t |-> "u"]

NoKV == <<>>

Obj(o, kv) == [t |-> "m", o |-> o, kv |-> kv]

Arr(o, el, kv) == [t |-> "a", o |-> o, el |-> el, kv |-> kv]

EmptyObj == Obj(0, NoKV)

EmptyArr == Arr(0, <<>>, NoKV)

Null == S("null")

FalsyScalars == {"0", "null", "false"}

\* the scalars that are (one-character) strings; the others are numbers,
\* booleans and null
StringScalars == {"c", "d", "x", "y"}

isString(v) == v.t = "s" /\ v.v \in StringScalars

\* the property name a value used as a key is converted to
ToKey(v) ==
  CASE v.t = "s" -> <<v.v>>
    [] v.t = "u" -> <<"undefined">>
    [] OTHER -> <<"[object Object]">>

Truthy(v) == v.t \in {"m", "a"} \/ (v.t = "s" /\ v.v \notin FalsyScalars)

IsObject(v) == v.t \in {"m", "a"}

isPlainObject(v) == v.t = "m"

isArray(v) == v.t = "a"

Put(kv, k, v) == [x \in (DOMAIN kv) \cup {k} |-> IF x = k THEN v ELSE kv[x]]

Del(kv, k) == [x \in (DOMAIN kv) \ {k} |-> kv[x]]

\* obj[k] for a property name k that is not an array index
Get(obj, k) == IF IsObject(obj) /\ k \in DOMAIN obj.kv THEN obj.kv[k] ELSE U

\* obj[k] = v
PutK(obj, k, v) == [obj EXCEPT !.kv = Put(obj.kv, k, v)]

\* a delete that leaves the property where it is
DelKNothing(obj, k) == obj

\* delete obj[k]
DelK(obj, k) == [obj EXCEPT !.kv = Del(obj.kv, k)]

RECURSIVE GetAt(_, _)
GetAt(root, keys) ==
  IF keys = <<>> THEN root ELSE GetAt(Get(root, Head(keys)), Tail(keys))

RECURSIVE PutAt(_, _, _)
PutAt(root, keys, v) ==
  IF keys = <<>> THEN v
  ELSE PutK(root, Head(keys), PutAt(Get(root, Head(keys)), Tail(keys), v))

\* the value without the origins of its objects: what deep equality compares
RECURSIVE Strip(_)
Strip(v) ==
  CASE v.t = "m" -> Obj(0, [k \in DOMAIN v.kv |-> Strip(v.kv[k])])
    [] v.t = "a" -> Arr(0, [i \in 1..Len(v.el) |-> Strip(v.el[i])],
                        [k \in DOMAIN v.kv |-> Strip(v.kv[k])])
    [] OTHER -> v

DeepEq(a, b) == Strip(a) = Strip(b)

\* the origins of all objects in a value
RECURSIVE Origins(_)
Origins(v) ==
  CASE v.t = "m" -> {v.o} \cup UNION {Origins(v.kv[k]) : k \in DOMAIN v.kv}
    [] v.t = "a" -> {v.o} \cup UNION {Origins(v.el[i]) : i \in 1..Len(v.el)}
                          \cup UNION {Origins(v.kv[k]) : k \in DOMAIN v.kv}
    [] OTHER -> {}

(* ------------------------------ lodash --------------------------------- *)

RECURSIVE cloneDeep(_)
cloneDeep(v) ==
  CASE v.t = "m" -> Obj(0, [k \in DOMAIN v.kv |-> cloneDeep(v.kv[k])])
    [] v.t = "a" -> Arr(0, [i \in 1..Len(v.el) |-> cloneDeep(v.el[i])], NoKV)
    [] OTHER -> v

\* the property name of the array index i - 1
Digits == <<"0", "1", "2", "3", "4", "5", "6", "7", "8", "9">>

IndexKey(i) == <<Digits[i]>>

\* the own enumerable properties of a value, as object spread and keysIn see
\* them: an array's elements under their index names, then its other properties
OwnProps(v) ==
  CASE v.t = "m" -> v.kv
    [] v.t = "a" -> [k \in {IndexKey(i) : i \in 1..Len(v.el)} \cup (DOMAIN v.kv) |->
                       IF k \in DOMAIN v.kv THEN v.kv[k]
                       ELSE v.el[CHOOSE i \in 1..Len(v.el) : IndexKey(i) = k]]
    [] isString(v) -> [k \in {IndexKey(1)} |-> v]
    [] OTHER -> NoKV

\* the elements an array spread [...v] takes from v
isIterable(v) == isArray(v) \/ isString(v)

Elements(v) == IF isArray(v) THEN v.el ELSE <<v>>

\* _.merge: baseMerge(object, source) walks the source's properties;
\* mergeValue is baseMergeDeep / assignMergeValue for one property: arrays and
\* plain objects are merged recursively (arrays index by index), anything
\* else is assigned, undefined is skipped.
RECURSIVE baseMerge(_, _)
RECURSIVE mergeValue(_, _)
baseMerge(object, source) ==
  CASE isArray(object) /\ isArray(source) ->
         LET len == IF Len(object.el) > Len(source.el)
                      THEN Len(object.el) ELSE Len(source.el)
         IN  Arr(object.o,
                 [i \in 1..len |->
                    IF i > Len(source.el) THEN object.el[i]
                    ELSE mergeValue(IF i <= Len(object.el) THEN object.el[i] ELSE U,
                                    source.el[i])],
                 [k \in (DOMAIN object.kv) \cup (DOMAIN source.kv) |->
                    IF k \in DOMAIN source.kv
                      THEN mergeValue(Get(object, k), source.kv[k])
                      ELSE object.kv[k]])
    [] OTHER ->
         LET props == OwnProps(source)
         IN  [object EXCEPT !.kv =
                 [k \in (DOMAIN object.kv) \cup (DOMAIN props) |->
                    IF k \in DOMAIN props
                      THEN mergeValue(Get(object, k), props[k])
                      ELSE object.kv[k]]]

mergeValue(ov, sv) ==
  CASE sv.t = "a" -> baseMerge(IF isArray(ov) THEN ov ELSE EmptyArr, sv)
    [] sv.t = "m" -> baseMerge(IF IsObject(ov) THEN ov ELSE EmptyObj, sv)
    [] sv.t = "u" -> ov
    [] OTHER -> sv

\* lodash merge({}, existingData, newData)
lodashMerge(existingData, newData) ==
  baseMerge(baseMerge(EmptyObj, existingData), newData)

(* ------------------------------ errors --------------------------------- *)

NoErr == <<>>

InvalidPath == <<"Invalid path: Missing target key">>

NotIterable == <<"TypeError: value is not iterable">>

NullProperty == <<"TypeError: Cannot read properties of null or undefined">>

PrimitiveProperty == <<"TypeError: Cannot create property on a primitive">>

NotAString == <<"TypeError: args[0].split is not a function">>

Res(st, e) == [st |-> st, err |-> e]

(* ------------------------ helpers of the class -------------------------- *)

\* an ensurePlainObject that puts an empty object whatever is there
ensurePlainObjectAlways(target, key) == PutK(target, key, EmptyObj)

ensurePlainObject(target, key) ==
  IF isPlainObject(Get(target, key)) THEN target ELSE PutK(target, key, EmptyObj)

\* an ensureArray that puts an empty array whatever is there
ensureArrayAlways(target, key) == PutK(target, key, EmptyArr)

ensureArray(target, key) ==
  IF isArray(Get(target, key)) THEN target ELSE PutK(target, key, EmptyArr)

\* a smartCloneDeep that hands back the value it was given
smartCloneDeepAliasing(value) == value

smartCloneDeep(value) ==
  IF isPlainObject(value) \/ isArray(value) THEN cloneDeep(value) ELSE value

\* a spread that drops the keys both sides have
SpreadExclusive(a, b) ==
  Obj(0, [k \in ((DOMAIN OwnProps(a)) \cup (DOMAIN OwnProps(b)))
                  \ ((DOMAIN OwnProps(a)) \cap (DOMAIN OwnProps(b))) |->
            IF k \in DOMAIN OwnProps(b) THEN OwnProps(b)[k] ELSE OwnProps(a)[k]])

\* a spread in which the left side wins
SpreadKeeping(a, b) ==
  Obj(0, [k \in (DOMAIN OwnProps(a)) \cup (DOMAIN OwnProps(b)) |->
            IF k \in DOMAIN OwnProps(a) THEN OwnProps(a)[k] ELSE OwnProps(b)[k]])

\* { ...a, ...b }
Spread(a, b) ==
  LET pa == OwnProps(a)
      pb == OwnProps(b)
  IN  Obj(0, [k \in (DOMAIN pa) \cup (DOMAIN pb) |->
                IF k \in DOMAIN pb THEN pb[k] ELSE pa[k]])

\* a === b: scalars by value, objects by identity
sameObject(a, b) == IsObject(a) /\ IsObject(b) /\ a.o # 0 /\ a.o = b.o /\ a = b

strictEquals(a, b) == IF IsObject(a) \/ IsObject(b) THEN sameObject(a, b) ELSE a = b

\* list.includes(item)
includes(list, item) == \E i \in 1..Len(list) : strictEquals(list[i], item)

\* list.filter(i => i !== item)
RECURSIVE filterNot(_, _)
filterNot(list, item) ==
  IF list = <<>> THEN <<>>
  ELSE (IF strictEquals(Head(list), item) THEN <<>> ELSE <<Head(list)>>)
         \o filterNot(Tail(list), item)

\* list.filter(item => item[property] !== value)
RECURSIVE filterNotBy(_, _, _)
filterNotBy(list, property, value) ==
  IF list = <<>> THEN <<>>
  ELSE (IF strictEquals(Get(Head(list), property), value) THEN <<>> ELSE <<Head(list)>>)
         \o filterNotBy(Tail(list), property, value)

\* a walk that puts a fresh mapping under every parent segment
RECURSIVE walkResetting(_, _)
walkResetting(target, keys) ==
  IF keys = <<>> THEN target
  ELSE LET t1 == ensurePlainObjectAlways(target, Head(keys))
       IN  PutK(t1, Head(keys), walkResetting(Get(t1, Head(keys)), Tail(keys)))

\* the walk of the parent segments: ensurePlainObject, then descend
RECURSIVE walk(_, _)
walk(target, keys) ==
  IF keys = <<>> THEN target
  ELSE LET t1 == ensurePlainObject(target, Head(keys))
       IN  PutK(t1, Head(keys), walk(Get(t1, Head(keys)), Tail(keys)))

\* a getTarget that walks the parent segments before it looks at the final key
getTargetWalkingFirst(st, path) ==
  IF Last(split(path, DIV)) = <<>>
    THEN [st |-> walk(st, Front(split(path, DIV))), tp |-> <<>>, fk |-> <<>>,
          err |-> InvalidPath]
    ELSE [st |-> walk(st, Front(split(path, DIV))), tp |-> Front(split(path, DIV)),
          fk |-> Last(split(path, DIV)), err |-> NoErr]

\* getTarget(path): st is the store after the walk, tp the keys leading to
\* the target container, fk the final key
getTarget(st, path) ==
  LET keys == split(path, DIV)
  IN  IF Last(keys) = <<>>
        THEN [st |-> st, tp |-> <<>>, fk |-> <<>>, err |-> InvalidPath]
        ELSE [st |-> walk(st, Front(keys)), tp |-> Front(keys),
              fk |-> Last(keys), err |-> NoErr]

(* --------------------- the writes of each operation -------------------- *)
(* Each takes the target container and the final key and gives the         *)
(* container after the write, with the error raised on the way (if any).   *)

Ok(t) == [t |-> t, err |-> NoErr]

Fail(t, e) == [t |-> t, err |-> e]

setChange(target, finalKey, value) ==
  Ok(PutK(target, finalKey, smartCloneDeep(value)))

\* a remove that leaves the key, holding undefined
removeChangeUndefined(target, finalKey) == Ok(PutK(target, finalKey, U))

removeChange(target, finalKey) == Ok(DelK(target, finalKey))

mergeChange(target, finalKey, value) ==
  LET t1 == ensurePlainObject(target, finalKey)
  IN  Ok(PutK(t1, finalKey, Spread(Get(t1, finalKey), smartCloneDeep(value))))

mergeDeepChange(target, finalKey, value) ==
  LET t1 == ensurePlainObject(target, finalKey)
      existingData == Get(t1, finalKey)
  IN  Ok(PutK(t1, finalKey, lodashMerge(existingData, smartCloneDeep(value))))

itemSetChange(target, finalKey, id, data) ==
  LET t1 == ensurePlainObject(target, finalKey)
      c1 == ensurePlainObject(Get(t1, finalKey), ToKey(id))
  IN  Ok(PutK(t1, finalKey, PutK(c1, ToKey(id), smartCloneDeep(data))))

itemMergeChange(target, finalKey, id, data) ==
  LET t1 == ensurePlainObject(target, finalKey)
      c1 == ensurePlainObject(Get(t1, finalKey), ToKey(id))
  IN  Ok(PutK(t1, finalKey,
              PutK(c1, ToKey(id), Spread(Get(c1, ToKey(id)), smartCloneDeep(data)))))

itemMergeDeepChange(target, finalKey, id, data) ==
  LET t1 == ensurePlainObject(target, finalKey)
      c1 == ensurePlainObject(Get(t1, finalKey), ToKey(id))
      existingData == Get(c1, ToKey(id))
  IN  Ok(PutK(t1, finalKey,
              PutK(c1, ToKey(id), lodashMerge(existingData, smartCloneDeep(data)))))

itemDeleteChange(target, finalKey, id) ==
  IF isPlainObject(Get(target, finalKey))
    THEN Ok(PutK(target, finalKey, DelK(Get(target, finalKey), ToKey(id))))
    ELSE Ok(target)

arrayAppendChange(target, finalKey, items) ==
  LET t1 == ensureArray(target, finalKey)
      copy == smartCloneDeep(items)
  IN  IF isIterable(copy)
        THEN Ok(PutK(t1, finalKey, Arr(0, Get(t1, finalKey).el \o Elements(copy), NoKV)))
        ELSE Fail(t1, NotIterable)

arrayToggleChange(target, finalKey, item) ==
  LET t1 == ensureArray(target, finalKey)
      list == Get(t1, finalKey).el
  IN  Ok(PutK(t1, finalKey,
              IF includes(list, item)
                THEN Arr(0, filterNot(list, item), NoKV)
                ELSE Arr(0, list \o <<smartCloneDeep(item)>>, NoKV)))

arrayRemoveChange(target, finalKey, item) ==
  LET t1 == ensureArray(target, finalKey)
  IN  Ok(PutK(t1, finalKey, Arr(0, filterNot(Get(t1, finalKey).el, item), NoKV)))

arrayRemoveByChange(target, finalKey, property, value) ==
  LET t1 == ensureArray(target, finalKey)
      list == Get(t1, finalKey).el
  IN  IF \E i \in 1..Len(list) : list[i] = Null
        THEN Fail(t1, NullProperty)
        ELSE Ok(PutK(t1, finalKey,
                     Arr(0, filterNotBy(list, ToKey(property), value), NoKV)))

(* ----------------------- v2: one method per operation ------------------ *)

\* applyChange without a mutator: the callback runs at once on the target
\* that getTarget resolved
applyChange(g, r) == Res(PutAt(g.st, g.tp, r.t), r.err)

\* the callback of the method of that name, on the resolved target
change(method, target, finalKey, a, b) ==
  CASE method = "set" -> setChange(target, finalKey, a)
    [] method = "remove" -> removeChange(target, finalKey)
    [] method = "merge" -> mergeChange(target, finalKey, a)
    [] method = "mergeDeep" -> mergeDeepChange(target, finalKey, a)
    [] method = "itemSet" -> itemSetChange(target, finalKey, a, b)
    [] method = "itemMerge" -> itemMergeChange(target, finalKey, a, b)
    [] method = "itemMergeDeep" -> itemMergeDeepChange(target, finalKey, a, b)
    [] method = "itemDelete" -> itemDeleteChange(target, finalKey, a)
    [] method = "arrayAppend" -> arrayAppendChange(target, finalKey, a)
    [] method = "arrayToggle" -> arrayToggleChange(target, finalKey, a)
    [] method = "arrayRemove" -> arrayRemoveChange(target, finalKey, a)
    [] method = "arrayRemoveBy" -> arrayRemoveByChange(target, finalKey, a, b)

\* the rest of a mutation method once getTarget has returned g (or thrown,
\* the store then being as getTarget left it)
onTarget(st, g, method, a, b) ==
  IF g.err # NoErr THEN Res(g.st, g.err)
  ELSE applyChange(g, change(method, GetAt(g.st, g.tp), g.fk, a, b))

\* a mutation method of v2: getTarget(path), then applyChange(callback)
mutation(st, method, path, a, b) ==
  onTarget(st, getTarget(st, path), method, a, b)

\* the mutator option of the constructor: absent, a hook that calls the
\* updater it is given at once, a hook that does not call it
Hooks == {"immediate", "never"}

\* what a call did: the store, the error, how often it called the hook
Hooked(r, hooks) == [st |-> r.st, err |-> r.err, hooks |-> hooks]

\* applyChange(callback) of an instance with that mutator option: the hook
\* is handed the callback, which has written r to the target when it ran
applyChangeWith(hook, g, r) ==
  CASE hook = "none" -> Hooked(applyChange(g, r), 0)
    [] hook = "immediate" -> Hooked(applyChange(g, r), 1)
    [] hook = "never" -> Hooked(Res(g.st, NoErr), 1)

\* the rest of a mutation method once getTarget has returned g (or thrown)
onTargetWith(hook, g, method, a, b) ==
  IF g.err # NoErr THEN Hooked(Res(g.st, g.err), 0)
  ELSE applyChangeWith(hook, g, change(method, GetAt(g.st, g.tp), g.fk, a, b))

\* a mutation method of an instance with that mutator option
mutationWith(hook, st, method, path, a, b) ==
  onTargetWith(hook, getTarget(st, path), method, a, b)

\* a setStore whose callback leaves this.store as it is
setStoreKeeping(hook, st, newStore) == Hooked(Res(st, NoErr), 1)

\* setStore(store): the assignment of this.store is the callback
setStore(hook, st, newStore) ==
  CASE hook \in {"none", "immediate"} ->
         Hooked(Res(newStore, NoErr), IF hook = "none" THEN 0 ELSE 1)
    [] hook = "never" -> Hooked(Res(st, NoErr), 1)

\* the object this.store referred to before the last assignment of
\* setStore, once setStore(store) has returned on an instance that owned st
owned(hook, st, before) == IF hook = "never" THEN before ELSE st

(* ----------------------- v1: executeOperation -------------------------- *)

Unsupported(operation) == <<"Unsupported operation '", operation, "'">>

\* this.ensurePlainObject(target[finalKey], payload.id) of the item cases:
\* target[finalKey] is used as it is found
itemSlot(target, finalKey, id) ==
  LET coll == Get(target, finalKey)
  IN  CASE coll = U \/ coll = Null -> Fail(target, NullProperty)
        [] coll.t = "s" -> Fail(target, PrimitiveProperty)
        [] OTHER -> Ok(PutK(target, finalKey, ensurePlainObject(coll, ToKey(id))))

\* the switch of executeOperation on the resolved target
operationCase(target, finalKey, operation, payload) ==
  CASE operation = "set" ->
         Ok(PutK(target, finalKey, smartCloneDeep(payload)))
    [] operation = "clear" ->
         Ok(DelK(target, finalKey))
    [] operation = "merge" ->
         LET t1 == ensurePlainObject(target, finalKey)
         IN  Ok(PutK(t1, finalKey, Spread(Get(t1, finalKey), smartCloneDeep(payload))))
    [] operation = "deepSet" ->
         Ok(PutK(target, finalKey, smartCloneDeep(payload.data)))
    [] operation = "deepMerge" ->
         LET t1 == ensurePlainObject(target, finalKey)
             existingData == Get(t1, finalKey)
             newData == IF Truthy(Get(payload, Str("data")))
                          THEN Get(payload, Str("data")) ELSE payload
         IN  IF payload = Null THEN Fail(t1, NullProperty)
             ELSE Ok(PutK(t1, finalKey, lodashMerge(existingData, smartCloneDeep(newData))))
    [] operation = "itemSet" ->
         LET s1 == itemSlot(target, finalKey, payload.id)
         IN  IF s1.err # NoErr THEN s1
             ELSE Ok(PutK(s1.t, finalKey,
                          PutK(Get(s1.t, finalKey), ToKey(payload.id),
                               smartCloneDeep(payload.data))))
    [] operation = "itemMerge" ->
         LET s1 == itemSlot(target, finalKey, payload.id)
         IN  IF s1.err # NoErr THEN s1
             ELSE Ok(PutK(s1.t, finalKey,
                          PutK(Get(s1.t, finalKey), ToKey(payload.id),
                               Spread(Get(Get(s1.t, finalKey), ToKey(payload.id)),
                                      smartCloneDeep(payload.data)))))
    [] operation = "itemDelete" ->
         IF isPlainObject(Get(target, finalKey))
           THEN Ok(PutK(target, finalKey, DelK(Get(target, finalKey), ToKey(payload))))
           ELSE Ok(target)
    [] operation = "arrayAppend" ->
         LET t1 == ensureArray(target, finalKey)
             copy == smartCloneDeep(payload.data)
         IN  IF isIterable(copy)
               THEN Ok(PutK(t1, finalKey,
                            Arr(0, Get(t1, finalKey).el \o Elements(copy), NoKV)))
               ELSE Fail(t1, NotIterable)
    [] operation = "arrayToggle" ->
         LET t1 == ensureArray(target, finalKey)
             list == Get(t1, finalKey).el
         IN  Ok(PutK(t1, finalKey,
                     IF includes(list, payload)
                       THEN Arr(0, filterNot(list, payload), NoKV)
                       ELSE Arr(0, list \o <<smartCloneDeep(payload)>>, NoKV)))
    [] operation = "arrayRemove" ->
         LET t1 == ensureArray(target, finalKey)
         IN  IF Truthy(payload.item)
               THEN Ok(PutK(t1, finalKey,
                            Arr(0, filterNot(Get(t1, finalKey).el, payload.item), NoKV)))
               ELSE Ok(t1)
    [] OTHER -> Fail(target, Unsupported(operation))

executeOperation(st, path, operation, payload) ==
  LET keys == split(path, DIV)
      finalKey == Last(keys)
  IN  IF finalKey = <<>> THEN Res(st, InvalidPath)
      ELSE LET st1 == walk(st, Front(keys))
               r == operationCase(GetAt(st1, Front(keys)), finalKey, operation, payload)
           IN  Res(PutAt(st1, Front(keys), r.t), r.err)

(* ------------------------------ scribe (v2) ---------------------------- *)

InvalidSuffix(suffix) == <<"Invalid suffix: ">> \o suffix

Suffixes ==
  {"set", "remove", "merge", "mergeDeep", "itemSet", "itemMerge", "itemMergeDeep",
   "itemDelete", "arrayAppend", "arrayToggle", "arrayRemove", "arrayRemoveBy"}

\* the suffixes whose case reads fields of the value
FieldSuffixes == {"itemSet", "itemMerge", "itemMergeDeep", "arrayRemoveBy"}

\* a switch whose every case hands the whole value to its method
scribeArgsWhole(suffix, value) == <<value, U>>

\* the second and third arguments a case of the switch hands to its method
scribeArgs(suffix, value) ==
  CASE suffix \in {"itemSet", "itemMerge", "itemMergeDeep"} ->
         <<Get(value, Str("id")), Get(value, Str("data"))>>
    [] suffix = "arrayRemoveBy" ->
         <<Get(value, Str("property")), Get(value, Str("value"))>>
    [] OTHER -> <<value, U>>

\* the switch of scribe on [path, suffix]; a missing suffix is undefined
switch(st, path, suffix, value) ==
  IF ~(Len(suffix) = 1 /\ suffix[1] \in Suffixes)
    THEN Res(st, InvalidSuffix(suffix))
  ELSE IF suffix[1] \in FieldSuffixes /\ (value = Null \/ value = U)
    THEN Res(st, NullProperty)
  ELSE mutation(st, suffix[1], path,
                scribeArgs(suffix[1], value)[1], scribeArgs(suffix[1], value)[2])

\* the parts pathWithSuffix.split(marker) destructures into [path, suffix]
suffixOf(parts) == IF Len(parts) >= 2 THEN parts[2] ELSE <<"undefined">>

\* scribe(pathWithSuffix, value): [path, suffix] = pathWithSuffix.split(marker),
\* then the switch on the suffix, each case calling the method of that name
scribe(st, pathWithSuffix, value) ==
  switch(st, split(pathWithSuffix, MARK)[1],
         suffixOf(split(pathWithSuffix, MARK)), value)

(* ------------------------------- batch --------------------------------- *)

BatchFailed(e) == <<"Batch execution failed: ">> \o e

InvalidMethod(method) == <<"Invalid method: ", method>>

\* a first argument that is a string
StrArg(s) == [t |-> "str", s |-> s]

\* the names under which the instance has a function a step may name
Functions(rv) ==
  IF rv = "v1"
    THEN {"set", "clear", "merge", "deepSet", "deepMerge", "itemSet", "itemMerge",
          "itemDelete", "arrayAppend", "arrayToggle", "arrayRemove", "batch"}
    ELSE {"set", "remove", "merge", "mergeDeep", "itemSet", "itemMerge",
          "itemMergeDeep", "itemDelete", "arrayAppend", "arrayToggle",
          "arrayRemove", "arrayRemoveBy", "batch", "setStore", "scribe",
          "scribeBatch"}

\* the payload a public method of v1 hands to executeOperation
payloadV1(method, a, b) ==
  CASE method \in {"set", "merge", "deepMerge", "itemDelete", "arrayToggle"} -> a
    [] method = "clear" -> U
    [] method \in {"deepSet", "arrayAppend"} -> [data |-> a]
    [] method \in {"itemSet", "itemMerge"} -> [id |-> a, data |-> b]
    [] method = "arrayRemove" -> [item |-> a]

\* fn.apply(this, args) for a public method of v1: each calls executeOperation
\* with its own name as the operation
invokeV1(st, method, path, a, b) ==
  executeOperation(st, path, method, payloadV1(method, a, b))

\* fn.apply(this, args) for a method of v2 that takes a path (or a path with
\* a suffix) first
invokeV2(st, method, path, a, b) ==
  IF method = "scribe" THEN scribe(st, path, a) ELSE mutation(st, method, path, a, b)

invoke(rv, st, method, path, a, b) ==
  IF rv = "v1" THEN invokeV1(st, method, path, a, b)
  ELSE invokeV2(st, method, path, a, b)

\* one step of the forEach of batch: typeof this[method] === "function"
step(rv, st, op) ==
  IF op.method \in Functions(rv)
    THEN invoke(rv, st, op.method, op.arg0.s, op.a, op.b)
    ELSE Res(st, InvalidMethod(op.method))

\* operations.forEach(...): in order, until one throws
RECURSIVE forEach(_, _, _)
RECURSIVE andThen(_, _, _)
\* a forEach that passes over the step after each one it runs
forEachSkipping(rv, st, operations) ==
  IF operations = <<>> THEN Res(st, NoErr)
  ELSE andThen(rv, step(rv, st, Head(operations)),
               IF Len(operations) > 1 THEN Tail(Tail(operations)) ELSE <<>>)

forEach(rv, st, operations) ==
  IF operations = <<>> THEN Res(st, NoErr)
  ELSE andThen(rv, step(rv, st, Head(operations)), Tail(operations))

\* after a step has returned r: the rest run unless the step threw
andThen(rv, r, operations) ==
  IF r.err # NoErr THEN r ELSE forEach(rv, r.st, operations)

\* the copies of the affected root keys that are in the store
snapshot(st, affectedKeys) ==
  [key \in affectedKeys \cap (DOMAIN st.kv) |-> cloneDeep(st.kv[key])]

\* a rollback that puts the copies back and deletes nothing
rollbackCopiesOnly(st, affectedKeys, originalStore) ==
  [st EXCEPT !.kv =
     [key \in (DOMAIN st.kv) \cup (DOMAIN originalStore) |->
        IF key \in DOMAIN originalStore THEN originalStore[key] ELSE st.kv[key]]]

\* the rollback loop: a key with a copy is put back, any other is deleted
rollback(st, affectedKeys, originalStore) ==
  [st EXCEPT !.kv =
     [key \in ((DOMAIN st.kv) \ affectedKeys) \cup (DOMAIN originalStore) |->
        IF key \in DOMAIN originalStore THEN originalStore[key] ELSE st.kv[key]]]

\* a catch that restores and throws the error as it caught it
catchRethrowing(r, affectedKeys, originalStore) ==
  IF r.err = NoErr THEN r
  ELSE Res(rollback(r.st, affectedKeys, originalStore), r.err)

\* the catch of batch on the outcome r of the forEach: restore, then throw
\* the wrapped error
catch(r, affectedKeys, originalStore) ==
  IF r.err = NoErr THEN r
  ELSE Res(rollback(r.st, affectedKeys, originalStore), BatchFailed(r.err))

\* the first segments of the steps' first arguments
batchKeys(operations) ==
  {split(operations[i].arg0.s, DIV)[1] : i \in 1..Len(operations)}

batch(rv, st, operations) ==
  IF \E i \in 1..Len(operations) : operations[i].arg0.t # "str"
    THEN Res(st, NotAString)
  ELSE catch(forEach(rv, st, operations), batchKeys(operations),
             snapshot(st, batchKeys(operations)))

\* scribeBatch: the same protocol over scribe, the keys cut at the marker too
RECURSIVE scribeEach(_, _)
RECURSIVE scribeThen(_, _)
scribeEach(st, operations) ==
  IF operations = <<>> THEN Res(st, NoErr)
  ELSE scribeThen(scribe(st, Head(operations).path, Head(operations).value),
                  Tail(operations))

scribeThen(r, operations) ==
  IF r.err # NoErr THEN r ELSE scribeEach(r.st, operations)

\* keys cut at the divider alone, as batch cuts them
scribeKeysUncut(operations) ==
  {split(operations[i].path, DIV)[1] : i \in 1..Len(operations)}

scribeKeys(operations) ==
  {split(split(operations[i].path, DIV)[1], MARK)[1] : i \in 1..Len(operations)}

scribeBatch(st, operations) ==
  catch(scribeEach(st, operations), scribeKeys(operations),
        snapshot(st, scribeKeys(operations)))

(* ------------------------- the values of the runs ---------------------- *)

KA == Str("a")
KB == Str("b")
KC == Str("c")
KX == Str("x")
KY == Str("y")
KZ == Str("z")
KData == Str("data")

One == S("1")
Two == S("2")
Three == S("3")
Four == S("4")
Zero == S("0")

\* a plain object / an array with the given origin
Map(o, kv) == Obj(o, kv)
List(o, el) == Arr(o, el, NoKV)

XY(o) == Map(o, (KX :> One) @@ (KY :> Two))
YZ(o) == Map(o, (KY :> Three) @@ (KZ :> Four))
X1(o) == Map(o, (KX :> One))

\* the stores an instance is constructed on
InitStores ==
  { EmptyObj,
    Map(0, (KA :> One)),
    Map(0, (KA :> XY(0)) @@ (KB :> Zero)),
    Map(0, (KA :> Map(0, (KA :> XY(0)) @@ (KB :> List(0, <<One, Two>>))))),
    Map(0, (KA :> List(0, <<One, X1(0), One>>)) @@ (KB :> X1(0))),
    Map(0, (KA :> Map(0, (KB :> List(0, <<X1(0), Null, Zero>>))))) }

\* addresses: "a", "a.b", and the deeper "a.b.c"; malformed: "", "a."
Paths == { KA, <<"a", DIV, "b">> }

DeepPaths == { <<"a", DIV, "b", DIV, "c">> }

BadPaths == { <<>>, <<"a", DIV>> }

\* what the caller passes: scalars, and objects of the caller (origin 1)
Nested == Map(1, (KA :> YZ(1)))

WithData == Map(1, (KData :> X1(1)) @@ (KY :> Three))

WithArray == Map(1, (KA :> List(1, <<Two>>)) @@ (KB :> List(1, <<Three>>)))

Ones == List(1, <<One>>)

Mixed == List(1, <<X1(1), Zero>>)

IdC == S("c")

IdX == S("x")

\* a method's arguments after the address: the pairs it is called with on a
\* well-formed address, and the one pair it is called with on a malformed one
Args(method) ==
  CASE method = "set" -> {<<One, U>>, <<X1(1), U>>, <<Nested, U>>, <<Mixed, U>>}
    [] method \in {"clear", "remove"} -> {<<U, U>>}
    [] method = "merge" -> {<<X1(1), U>>, <<Nested, U>>}
    [] method = "deepSet" -> {<<X1(1), U>>}
    [] method \in {"deepMerge", "mergeDeep"} ->
         {<<Nested, U>>, <<WithData, U>>, <<WithArray, U>>}
    [] method = "itemSet" -> {<<IdC, One>>, <<IdC, X1(1)>>}
    [] method = "itemMerge" -> {<<IdC, X1(1)>>}
    [] method = "itemMergeDeep" -> {<<IdC, Nested>>}
    [] method = "itemDelete" -> {<<IdX, U>>}
    [] method = "arrayAppend" -> {<<Ones, U>>, <<Mixed, U>>, <<One, U>>}
    [] method \in {"arrayToggle", "arrayRemove"} ->
         {<<One, U>>, <<Zero, U>>, <<X1(1), U>>}
    [] method = "arrayRemoveBy" -> {<<IdX, One>>}

Inputs(method) ==
  (Paths \X Args(method))
    \cup (BadPaths \X {CHOOSE args \in Args(method) : TRUE})
    \cup (IF method = "set" THEN DeepPaths \X Args(method) ELSE {})

(* ------------------------------ the machine ---------------------------- *)

\* the last call: its method and arguments as they were when it was made,
\* and whether the caller has written into the objects it passed since
Call(method, path, a, b, ops) ==
  [method |-> method, path |-> path, a |-> a, b |-> b, ops |-> ops,
   touched |-> FALSE, hooks |-> 0]

Revisions == {"v1", "v2"}

Init ==
  /\ rev \in Revisions
  /\ mutator = "none"
  /\ old = U
  /\ pending = <<>>
  /\ store \in InitStores
  /\ pre = store
  /\ call = Call("new", <<>>, U, U, <<>>)
  /\ err = NoErr
  /\ n = 0

\* one call of a method: the result r is what the method did to the store
Do(method, path, a, b, r) ==
  /\ n < MaxOps
  /\ store' = r.st
  /\ err' = r.err
  /\ pre' = store
  /\ call' = Call(method, path, a, b, <<>>)
  /\ n' = n + 1
  /\ UNCHANGED <<rev, mutator, old, pending>>

Set ==
  /\ rev \in Revisions
  /\ \E in \in Inputs("set") :
       Do("set", in[1], in[2][1], in[2][2],
          invoke(rev, store, "set", in[1], in[2][1], in[2][2]))

Clear ==
  /\ rev = "v1"
  /\ \E in \in Inputs("clear") :
       Do("clear", in[1], in[2][1], in[2][2],
          invoke(rev, store, "clear", in[1], in[2][1], in[2][2]))

Remove ==
  /\ rev = "v2"
  /\ \E in \in Inputs("remove") :
       Do("remove", in[1], in[2][1], in[2][2],
          invoke(rev, store, "remove", in[1], in[2][1], in[2][2]))

Merge ==
  /\ rev \in Revisions
  /\ \E in \in Inputs("merge") :
       Do("merge", in[1], in[2][1], in[2][2],
          invoke(rev, store, "merge", in[1], in[2][1], in[2][2]))

DeepSet ==
  /\ rev = "v1"
  /\ \E in \in Inputs("deepSet") :
       Do("deepSet", in[1], in[2][1], in[2][2],
          invoke(rev, store, "deepSet", in[1], in[2][1], in[2][2]))

DeepMerge ==
  /\ rev = "v1"
  /\ \E in \in Inputs("deepMerge") :
       Do("deepMerge", in[1], in[2][1], in[2][2],
          invoke(rev, store, "deepMerge", in[1], in[2][1], in[2][2]))

MergeDeep ==
  /\ rev = "v2"
  /\ \E in \in Inputs("mergeDeep") :
       Do("mergeDeep", in[1], in[2][1], in[2][2],
          invoke(rev, store, "mergeDeep", in[1], in[2][1], in[2][2]))

ItemSet ==
  /\ rev \in Revisions
  /\ \E in \in Inputs("itemSet") :
       Do("itemSet", in[1], in[2][1], in[2][2],
          invoke(rev, store, "itemSet", in[1], in[2][1], in[2][2]))

ItemMerge ==
  /\ rev \in Revisions
  /\ \E in \in Inputs("itemMerge") :
       Do("itemMerge", in[1], in[2][1], in[2][2],
          invoke(rev, store, "itemMerge", in[1], in[2][1], in[2][2]))

ItemMergeDeep ==
  /\ rev = "v2"
  /\ \E in \in Inputs("itemMergeDeep") :
       Do("itemMergeDeep", in[1], in[2][1], in[2][2],
          invoke(rev, store, "itemMergeDeep", in[1], in[2][1], in[2][2]))

ItemDelete ==
  /\ rev \in Revisions
  /\ \E in \in Inputs("itemDelete") :
       Do("itemDelete", in[1], in[2][1], in[2][2],
          invoke(rev, store, "itemDelete", in[1], in[2][1], in[2][2]))

ArrayAppend ==
  /\ rev \in Revisions
  /\ \E in \in Inputs("arrayAppend") :
       Do("arrayAppend", in[1], in[2][1], in[2][2],
          invoke(rev, store, "arrayAppend", in[1], in[2][1], in[2][2]))

ArrayToggle ==
  /\ rev \in Revisions
  /\ \E in \in Inputs("arrayToggle") :
       Do("arrayToggle", in[1], in[2][1], in[2][2],
          invoke(rev, store, "arrayToggle", in[1], in[2][1], in[2][2]))

ArrayRemove ==
  /\ rev \in Revisions
  /\ \E in \in Inputs("arrayRemove") :
       Do("arrayRemove", in[1], in[2][1], in[2][2],
          invoke(rev, store, "arrayRemove", in[1], in[2][1], in[2][2]))

ArrayRemoveBy ==
  /\ rev = "v2"
  /\ \E in \in Inputs("arrayRemoveBy") :
       Do("arrayRemoveBy", in[1], in[2][1], in[2][2],
          invoke(rev, store, "arrayRemoveBy", in[1], in[2][1], in[2][2]))

\* every object of the caller, wherever it is held, after the caller has
\* written a property into it
RECURSIVE Touched(_)
Touched(v) ==
  LET kv == [k \in (DOMAIN v.kv) \cup (IF v.o = 1 THEN {Str("touched")} ELSE {}) |->
               IF k \in DOMAIN v.kv THEN Touched(v.kv[k]) ELSE One]
  IN  CASE v.t = "m" -> Obj(v.o, kv)
        [] v.t = "a" -> Arr(v.o, [i \in 1..Len(v.el) |-> Touched(v.el[i])], kv)
        [] OTHER -> v

\* the caller writes into the objects it passed to the last call
CallerMutates ==
  /\ call.method \in Functions(rev)
  /\ IsObject(call.a) \/ IsObject(call.b)
  /\ ~call.touched
  /\ store' = Touched(store)
  /\ call' = [call EXCEPT !.touched = TRUE]
  /\ UNCHANGED <<rev, mutator, old, pending, pre, err, n>>

Next ==
  \/ Set \/ Clear \/ Remove \/ Merge \/ DeepSet \/ DeepMerge \/ MergeDeep
  \/ ItemSet \/ ItemMerge \/ ItemMergeDeep \/ ItemDelete
  \/ ArrayAppend \/ ArrayToggle \/ ArrayRemove \/ ArrayRemoveBy
  \/ CallerMutates

Spec == Init /\ [][Next]_vars

(* --------------------------- the batch machine ------------------------- *)

\* a step descriptor {method, args: [path, a, b]}
Step(method, path, a, b) ==
  [method |-> method, arg0 |-> StrArg(path), a |-> a, b |-> b]

\* the descriptor {method: "setStore", args: [store]}: its first argument is
\* an object
SetStoreStep == [method |-> "setStore", arg0 |-> [t |-> "obj"], a |-> U, b |-> U]

\* steps both revisions take: writes on old and new root keys, an operation
\* that throws after a coercion, malformed addresses, an unknown method
CommonSteps ==
  { Step("set", KA, One, U),
    Step("set", <<"b", DIV, "c">>, X1(1), U),
    Step("arrayAppend", <<"a", DIV, "b">>, Mixed, U),
    Step("itemSet", <<"c", DIV, "d">>, IdC, One),
    Step("arrayAppend", KA, One, U),
    Step("set", <<"c", DIV>>, One, U),
    Step("set", <<>>, One, U),
    Step("nope", KA, One, U) }

Steps(rv) ==
  IF rv = "v1"
    THEN CommonSteps \cup
         { Step("deepMerge", KA, WithData, U), Step("clear", KB, U, U) }
    ELSE CommonSteps \cup
         { Step("mergeDeep", KA, Nested, U), Step("remove", KB, U, U),
           Step("scribe", <<"a", MARK, "set">>, Two, U),
           Step("scribe", <<"a", DIV, "b", MARK, "merge">>, X1(1), U),
           SetStoreStep }

\* the lists of at most MaxSteps elements of a set
Lists(set) == UNION { [1..len -> set] : len \in 0..MaxSteps }

\* a step of scribeBatch {path, value}
Note(path, value) == [path |-> path, value |-> value]

Notes ==
  { Note(<<"a", MARK, "set">>, One),
    Note(<<"b", DIV, "c", MARK, "set">>, X1(1)),
    Note(<<"a", DIV, "b", MARK, "arrayAppend">>, Mixed),
    Note(<<"c", MARK, "itemSet">>, Map(1, (Str("id") :> IdC) @@ (KData :> One))),
    Note(<<"c", DIV, "d", MARK, "remove">>, U),
    Note(<<"a", MARK, "arrayAppend">>, One),
    Note(<<"a", MARK, "invalid">>, One),
    Note(<<"b", DIV, "c">>, One),
    Note(<<"c", DIV, MARK, "set">>, One),
    Note(<<MARK, "set">>, One) }

\* batch(operations) on an instance just constructed
Batch ==
  /\ call.method = "new"
  /\ \E operations \in Lists(Steps(rev)) :
       LET r == batch(rev, store, operations)
       IN  /\ store' = r.st
           /\ err' = r.err
           /\ pre' = store
           /\ call' = Call("batch", <<>>, U, U, operations)
  /\ UNCHANGED <<rev, mutator, old, pending, n>>

\* scribeBatch(operations) on an instance just constructed
ScribeBatch ==
  /\ rev = "v2"
  /\ call.method = "new"
  /\ \E operations \in Lists(Notes) :
       LET r == scribeBatch(store, operations)
       IN  /\ store' = r.st
           /\ err' = r.err
           /\ pre' = store
           /\ call' = Call("scribeBatch", <<>>, U, U, operations)
  /\ UNCHANGED <<rev, mutator, old, pending, n>>

NextBatch == Batch \/ ScribeBatch

SpecBatch == Init /\ [][NextBatch]_vars

(* --------------------------- claims on batches ------------------------- *)

\* the methods a step may name that are not elementary mutations
Composite == {"batch", "setStore", "scribe", "scribeBatch"}

\* every step has an address (a string) as its first argument
Addressed(operations) ==
  \A i \in 1..Len(operations) : operations[i].arg0.t = "str"

\* every step names an elementary mutation method, or no method of the
\* instance, with an address as its first argument
Elementary(operations) ==
  /\ Addressed(operations)
  /\ \A i \in 1..Len(operations) : operations[i].method \notin Composite

\* one call of the method a step names, made directly on the instance
direct(rv, st, op) ==
  IF op.method \in Functions(rv)
    THEN invoke(rv, st, op.method, op.arg0.s, op.a, op.b)
    ELSE Res(st, InvalidMethod(op.method))

\* the calls made one at a time in list order, stopping at the first error
RECURSIVE oneAtATime(_, _, _)
oneAtATime(rv, st, operations) ==
  IF operations = <<>> THEN Res(st, NoErr)
  ELSE LET r == direct(rv, st, Head(operations))
       IN  IF r.err # NoErr THEN r ELSE oneAtATime(rv, r.st, Tail(operations))

\* the scribe calls made one at a time in list order
RECURSIVE notesOneAtATime(_, _)
notesOneAtATime(st, operations) ==
  IF operations = <<>> THEN Res(st, NoErr)
  ELSE LET r == scribe(st, Head(operations).path, Head(operations).value)
       IN  IF r.err # NoErr THEN r ELSE notesOneAtATime(r.st, Tail(operations))

\* the store has the same root keys as before, each deeply equal
Restored == DOMAIN store.kv = DOMAIN pre.kv /\ DeepEq(store, pre)

\* root key k is as it was before the call: absent, or deeply equal
SameAt(k) ==
  /\ k \in DOMAIN store.kv <=> k \in DOMAIN pre.kv
  /\ DeepEq(Get(store, k), Get(pre, k))

\* e ends with the message m
EndsWith(e, m) ==
  Len(e) >= Len(m) /\ SubSeq(e, Len(e) - Len(m) + 1, Len(e)) = m

\* C1: a batch of elementary steps is all-or-nothing: if a step fails (unknown
\* method, malformed address, error inside the operation) the whole store is
\* deeply equal to the store before the call, root keys created on the way
\* absent again; if batch raises nothing, no step failed and every step's
\* mutation is in the store.
C1_BatchAllOrNothing ==
  (call.method = "batch" /\ Elementary(call.ops)) =>
     /\ oneAtATime(rev, pre, call.ops).err # NoErr => (err # NoErr /\ Restored)
     /\ err = NoErr =>
          /\ \A i \in 1..Len(call.ops) :
               oneAtATime(rev, pre, SubSeq(call.ops, 1, i)).err = NoErr
          /\ store = oneAtATime(rev, pre, call.ops).st

\* C1: a first step created a root key, a later step failed, and the key is gone
C1_Witness ==
  /\ call.method = "batch" /\ Elementary(call.ops) /\ Len(call.ops) = 2
  /\ direct(rev, pre, call.ops[1]).err = NoErr
  /\ DOMAIN direct(rev, pre, call.ops[1]).st.kv # DOMAIN pre.kv
  /\ err # NoErr
  /\ DOMAIN store.kv = DOMAIN pre.kv

C4_ScribeBatchRollback ==
  call.method = "scribeBatch" =>
     /\ notesOneAtATime(pre, call.ops).err # NoErr <=> err # NoErr
     /\ err # NoErr =>
          /\ Restored
          /\ err = BatchFailed(notesOneAtATime(pre, call.ops).err)
          /\ EndsWith(err, notesOneAtATime(pre, call.ops).err)

\* C4: a first note created a root key, the second has the suffix "invalid"
C4_Witness ==
  /\ call.method = "scribeBatch" /\ Len(call.ops) = 2
  /\ scribe(pre, call.ops[1].path, call.ops[1].value).err = NoErr
  /\ DOMAIN scribe(pre, call.ops[1].path, call.ops[1].value).st.kv # DOMAIN pre.kv
  /\ EndsWith(err, <<"Invalid suffix: ", "invalid">>)
  /\ Restored

\* C5: a batch in which no step fails raises nothing and leaves the store
\* the one-at-a-time calls of its steps leave, in list order, each step on
\* the store the steps before it left.
C5_BatchIsSequence ==
  (call.method = "batch" /\ Elementary(call.ops)
     /\ oneAtATime(rev, pre, call.ops).err = NoErr) =>
        /\ err = NoErr
        /\ Len(call.ops) = 0 => store = pre
        /\ Len(call.ops) = 1 => store = direct(rev, pre, call.ops[1]).st
        /\ Len(call.ops) = 2 =>
             store = direct(rev, direct(rev, pre, call.ops[1]).st, call.ops[2]).st
        /\ store = oneAtATime(rev, pre, call.ops).st

\* C5: two steps succeeded, and the other order leaves another store
C5_Witness ==
  /\ call.method = "batch" /\ Elementary(call.ops) /\ Len(call.ops) = 2
  /\ err = NoErr
  /\ oneAtATime(rev, pre, <<call.ops[2], call.ops[1]>>).err = NoErr
  /\ oneAtATime(rev, pre, <<call.ops[2], call.ops[1]>>).st # store
  /\ store # pre

(* ---------------------- claims on elementary calls --------------------- *)

\* the methods that take an address and write at it
Mutators ==
  {"set", "clear", "remove", "merge", "deepSet", "deepMerge", "mergeDeep",
   "itemSet", "itemMerge", "itemMergeDeep", "itemDelete", "arrayAppend",
   "arrayToggle", "arrayRemove", "arrayRemoveBy"}

\* the segments of the address of the last call
Keys == split(call.path, DIV)

\* the last call was an elementary mutation on an address whose final key
\* is not empty
OnAddress == call.method \in Mutators /\ Last(Keys) # <<>>

\* the first i segments of the address
Prefix(i) == SubSeq(Keys, 1, i)

\* C6: on an address with a non-empty final key the walk of the parent
\* segments never fails; after it every parent segment holds a mapping; a
\* segment that held a mapping keeps it (its other keys untouched), and a
\* segment that was absent or held a scalar, null or a sequence holds a fresh
\* mapping with nothing of the prior value. On the empty store
\* set("a.b.c", v) gives exactly {a:{b:{c:v}}}.
C6_AutoVivification ==
  OnAddress =>
     /\ err # InvalidPath
     /\ \A i \in 0..(Len(Keys) - 1) :
          /\ isPlainObject(GetAt(store, Prefix(i)))
          /\ isPlainObject(GetAt(pre, Prefix(i))) =>
               \A k \in DOMAIN GetAt(pre, Prefix(i)).kv :
                  k = Keys[i + 1]
                    \/ (/\ k \in DOMAIN GetAt(store, Prefix(i)).kv
                        /\ Get(GetAt(store, Prefix(i)), k) = Get(GetAt(pre, Prefix(i)), k))
          /\ ~isPlainObject(GetAt(pre, Prefix(i))) =>
               DOMAIN GetAt(store, Prefix(i)).kv \subseteq {Keys[i + 1]}
     /\ (call.method = "set" /\ call.path = <<"a", DIV, "b", DIV, "c">>
           /\ pre = EmptyObj) =>
          store = Map(0, (KA :> Map(0, (KB :> Map(0, (KC :> cloneDeep(call.a)))))))

\* C6: set("a.b.c", 1) on a store whose "a" held a scalar
C6_Witness ==
  /\ call.method = "set" /\ call.path = <<"a", DIV, "b", DIV, "c">>
  /\ call.a = One
  /\ Get(pre, KA) = One
  /\ store = Map(0, (KA :> Map(0, (KB :> Map(0, (KC :> One))))))

\* C7: nothing reachable from the store is an object of the caller, so what
\* the caller writes into a payload after the call is not in the store; after
\* set(addr, p) the value at addr is deeply equal to p as it was passed, and
\* stays so once the caller has written into p.
C7_CopyIsolation ==
  /\ 1 \notin Origins(store)
  /\ (call.method = "set" /\ err = NoErr) =>
        DeepEq(GetAt(store, Keys), call.a)

\* C7: the caller has written into the mapping it passed to set
C7_Witness ==
  /\ call.method = "set" /\ err = NoErr /\ call.touched
  /\ isPlainObject(call.a)
  /\ DeepEq(GetAt(store, Keys), call.a)
  /\ Str("touched") \notin DOMAIN GetAt(store, Keys).kv

\* the value at the address before the call: absent unless every parent
\* segment held a mapping
TargetBefore ==
  IF \A i \in 1..(Len(Keys) - 1) : isPlainObject(GetAt(pre, Prefix(i)))
    THEN GetAt(pre, Keys) ELSE U

\* the value at the address after the call
TargetAfter == GetAt(store, Keys)

\* C8: itemSet(path, id, data) and itemMerge(path, id, data) on a target
\* that is absent or is not a mapping make the target an empty mapping and
\* complete without raising, leaving the copy of data under id: on the empty
\* store itemSet("users", "user1", {name: "John"}) gives
\* {users: {user1: {name: "John"}}}.
C8_ItemOpsCoerceTarget ==
  (call.method \in {"itemSet", "itemMerge"} /\ OnAddress
     /\ ~isPlainObject(TargetBefore)) =>
        /\ err = NoErr
        /\ isPlainObject(TargetAfter)
        /\ DOMAIN TargetAfter.kv = {ToKey(call.a)}
        /\ DeepEq(Get(TargetAfter, ToKey(call.a)), call.b)

\* the merge as it is specified: mappings on both sides are merged key by
\* key, anything else of P replaces what T has
RECURSIVE rightBiased(_, _)
rightBiased(T, P) ==
  Obj(0, [k \in (DOMAIN T.kv) \cup (DOMAIN P.kv) |->
            IF k \notin DOMAIN P.kv THEN T.kv[k]
            ELSE IF k \in DOMAIN T.kv /\ isPlainObject(T.kv[k])
                      /\ isPlainObject(P.kv[k])
              THEN rightBiased(T.kv[k], P.kv[k])
              ELSE P.kv[k]])

\* C9: deepMerge(path, P) (mergeDeep in the later revision) makes the target
\* a mapping and merges P into it recursively and right-biased: mappings on
\* both sides are merged, otherwise P's value replaces the target's (also
\* when either side is a sequence or a scalar), keys only in the target are
\* kept; for every mapping P, also one with a key named data.
C9_DeepMergeRightBiased ==
  (call.method \in {"deepMerge", "mergeDeep"} /\ OnAddress
     /\ isPlainObject(call.a)) =>
        /\ err = NoErr
        /\ DeepEq(TargetAfter,
                  rightBiased(IF isPlainObject(TargetBefore) THEN TargetBefore
                              ELSE EmptyObj, call.a))

\* C10: arrayToggle(path, item) and arrayRemove(path, item) count an element
\* that is deeply equal to item as item, though it is another object: after
\* either, no element of the sequence is deeply equal to item.
C10_MembershipByValue ==
  (call.method \in {"arrayToggle", "arrayRemove"} /\ OnAddress
     /\ IsObject(call.a) /\ isArray(TargetBefore)
     /\ \E i \in 1..Len(TargetBefore.el) : DeepEq(TargetBefore.el[i], call.a)) =>
        /\ err = NoErr
        /\ isArray(TargetAfter)
        /\ \A j \in 1..Len(TargetAfter.el) : ~DeepEq(TargetAfter.el[j], call.a)

\* the elements of a sequence that are not the scalar item, in their order
RECURSIVE without(_, _)
without(list, item) ==
  IF list = <<>> THEN <<>>
  ELSE (IF Head(list) = item THEN <<>> ELSE <<Head(list)>>) \o without(Tail(list), item)

\* the elements at the address before the call, none if no sequence was there
ElementsBefore == IF isArray(TargetBefore) THEN TargetBefore.el ELSE <<>>

\* C11: arrayRemove(path, item) leaves at the target the sequence of the
\* elements that were there and are not equal to item, in their order, every
\* occurrence of item removed, for every scalar item, the falsy ones (0,
\* null, false) too; a target that is not a sequence counts as empty.
C11_ArrayRemoveEveryItem ==
  (call.method = "arrayRemove" /\ OnAddress /\ ~IsObject(call.a)) =>
     /\ err = NoErr
     /\ isArray(TargetAfter)
     /\ TargetAfter.el = without(ElementsBefore, call.a)

\* how many elements of a sequence are deeply equal to v
Count(list, v) == Cardinality({i \in 1..Len(list) : DeepEq(list[i], v)})

\* two sequences have the same elements, each as many times
SameBag(l1, l2) ==
  /\ Len(l1) = Len(l2)
  /\ \A i \in 1..Len(l1) : Count(l1, l1[i]) = Count(l2, l1[i])

\* the elements of a sequence that are not deeply equal to item, in order
RECURSIVE others(_, _)
others(list, item) ==
  IF list = <<>> THEN <<>>
  ELSE (IF DeepEq(Head(list), item) THEN <<>> ELSE <<Strip(Head(list))>>)
         \o others(Tail(list), item)

\* the sequence at the address once the last call is made a second time
ToggledAgain ==
  GetAt(invoke(rev, store, "arrayToggle", call.path, call.a, U).st, Keys).el

\* C12: arrayToggle is an involution on membership: on any sequence and for
\* any item, one toggle removes every occurrence of the item if it is
\* present and otherwise appends it once at the end; two toggles give back
\* the original multiset of elements, the other elements in their order.
C12_ToggleInvolution ==
  (call.method = "arrayToggle" /\ OnAddress /\ isArray(TargetBefore)) =>
     /\ err = NoErr
     /\ isArray(TargetAfter)
     /\ Count(ElementsBefore, call.a) > 0 =>
          [i \in 1..Len(TargetAfter.el) |-> Strip(TargetAfter.el[i])]
             = others(ElementsBefore, call.a)
     /\ Count(ElementsBefore, call.a) = 0 =>
          [i \in 1..Len(TargetAfter.el) |-> Strip(TargetAfter.el[i])]
             = others(ElementsBefore, call.a) \o <<Strip(call.a)>>
     /\ SameBag(ToggledAgain, ElementsBefore)
     /\ others(ToggledAgain, call.a) = others(ElementsBefore, call.a)

\* the outcome of making the last call (a merge) once more
MergedAgain == invoke(rev, store, "merge", call.path, call.a, U)

\* C13: merge is idempotent: merge(addr, P) made twice leaves the store
\* that merge(addr, P) made once leaves, also when the target was absent or
\* not a mapping at first.
C13_MergeIdempotent ==
  (call.method = "merge" /\ OnAddress) =>
     /\ err = NoErr
     /\ MergedAgain.err = NoErr
     /\ MergedAgain.st = store

\* C13: a merge changed a target that held no mapping, and the second merge
\* changes nothing
C13_Witness ==
  /\ call.method = "merge" /\ OnAddress /\ err = NoErr
  /\ ~isPlainObject(TargetBefore)
  /\ DOMAIN TargetAfter.kv # {}
  /\ MergedAgain.st = store

\* the previous target as merge sees it: an empty mapping unless a mapping
TargetMapping == IF isPlainObject(TargetBefore) THEN TargetBefore ELSE EmptyObj

\* C14: merge(addr, P) merges one level: the target becomes a mapping with
\* the keys of the previous target and of P; a key of P holds a copy of P's
\* value, also where the previous value was a mapping (replaced, not merged);
\* a key only in the previous target keeps its value; a previous target that
\* was absent or not a mapping counts as an empty mapping.
C14_MergeOneLevel ==
  (call.method = "merge" /\ OnAddress /\ isPlainObject(call.a)) =>
     /\ err = NoErr
     /\ isPlainObject(TargetAfter)
     /\ DOMAIN TargetAfter.kv = (DOMAIN TargetMapping.kv) \cup (DOMAIN call.a.kv)
     /\ \A k \in DOMAIN call.a.kv :
          /\ DeepEq(TargetAfter.kv[k], call.a.kv[k])
          /\ 1 \notin Origins(TargetAfter.kv[k])
     /\ \A k \in (DOMAIN TargetMapping.kv) \ (DOMAIN call.a.kv) :
          TargetAfter.kv[k] = TargetMapping.kv[k]

\* C14: the target held a mapping under a key of P, P holds another mapping
\* there, and afterwards the key holds P's, with a key only the target had
C14_Witness ==
  /\ call.method = "merge" /\ OnAddress /\ call.a = Nested
  /\ isPlainObject(Get(TargetBefore, KA))
  /\ KX \in DOMAIN Get(TargetBefore, KA).kv
  /\ DeepEq(Get(TargetAfter, KA), YZ(1))
  /\ KB \in DOMAIN TargetAfter.kv

\* C15: arrayAppend(addr, items) puts at the target the sequence that was
\* there followed by copies of the items, both in their order, no duplicate
\* removed, so the length grows by the number of items; a target that is
\* absent or not a sequence is discarded and counts as empty.
C15_ArrayAppendConcatenates ==
  (call.method = "arrayAppend" /\ OnAddress /\ isArray(call.a)) =>
     /\ err = NoErr
     /\ isArray(TargetAfter)
     /\ Len(TargetAfter.el) = Len(ElementsBefore) + Len(call.a.el)
     /\ SubSeq(TargetAfter.el, 1, Len(ElementsBefore)) = ElementsBefore
     /\ \A i \in 1..Len(call.a.el) :
          /\ DeepEq(TargetAfter.el[Len(ElementsBefore) + i], call.a.el[i])
          /\ 1 \notin Origins(TargetAfter.el[Len(ElementsBefore) + i])

\* C15: items were appended to a sequence that already held one of them
C15_Witness ==
  /\ call.method = "arrayAppend" /\ OnAddress /\ call.a = Ones
  /\ isArray(TargetBefore)
  /\ Count(ElementsBefore, One) > 0
  /\ Count(TargetAfter.el, One) = Count(ElementsBefore, One) + 1

\* every parent segment of the address held a mapping before the call
ParentsWereMappings ==
  \A i \in 1..(Len(Keys) - 1) : isPlainObject(GetAt(pre, Prefix(i)))

\* C16 as stated: itemDelete(addr, id) on a target that is not a mapping
\* (absent, a scalar, a sequence) does not raise and leaves the store as it
\* was before the call; on a mapping it deletes the key id and keeps the
\* mapping.
C16_ItemDeleteNoOp ==
  (call.method = "itemDelete" /\ OnAddress) =>
     /\ err = NoErr
     /\ ~isPlainObject(TargetBefore) => store = pre
     /\ isPlainObject(TargetBefore) =>
          store = PutAt(pre, Keys, DelK(TargetBefore, ToKey(call.a)))

\* C16 amended: itemDelete(addr, id) on a target that is not a mapping does
\* not raise and leaves the value at the address as it was; the store is as
\* before the call if every parent segment held a mapping, and otherwise
\* differs only in the parent segments that the walk made mappings. On a
\* mapping it deletes exactly the key id and keeps the mapping.
C16_ItemDeleteKeepsTarget ==
  (call.method = "itemDelete" /\ OnAddress) =>
     /\ err = NoErr
     /\ ~isPlainObject(TargetBefore) =>
          /\ TargetAfter = TargetBefore
          /\ ParentsWereMappings => store = pre
          /\ \A i \in 1..(Len(Keys) - 1) :
               /\ isPlainObject(GetAt(store, Prefix(i)))
               /\ isPlainObject(GetAt(pre, Prefix(i))) \/
                    DOMAIN GetAt(store, Prefix(i)).kv \subseteq {Keys[i + 1]}
          /\ \A k \in (DOMAIN pre.kv) \ {Keys[1]} :
               k \in DOMAIN store.kv /\ store.kv[k] = pre.kv[k]
     /\ isPlainObject(TargetBefore) =>
          /\ isPlainObject(TargetAfter)
          /\ ToKey(call.a) \notin DOMAIN TargetAfter.kv
          /\ store = PutAt(pre, Keys, DelK(TargetBefore, ToKey(call.a)))
          /\ \A k \in (DOMAIN TargetBefore.kv) \ {ToKey(call.a)} :
               k \in DOMAIN TargetAfter.kv /\ TargetAfter.kv[k] = TargetBefore.kv[k]

\* C16: itemDelete on an address whose parent segment was absent: nothing
\* is raised, nothing is at the address, the parent is an empty mapping
C16_Witness ==
  /\ call.method = "itemDelete" /\ OnAddress /\ err = NoErr
  /\ Len(Keys) = 2
  /\ Keys[1] \notin DOMAIN pre.kv
  /\ TargetAfter = U
  /\ Get(store, Keys[1]) = EmptyObj

\* C17: every elementary mutation called with an address that has no final
\* key (the empty string, an address ending in the divider) raises the
\* invalid-path error and leaves the store exactly as it was: no parent
\* segment is created.
C17_MalformedAddress ==
  (call.method \in Mutators /\ Last(Keys) = <<>>) =>
     /\ err = InvalidPath
     /\ store = pre

\* C17: a call on "a." where the store had no mapping under a
C17_Witness ==
  /\ call.method \in Mutators
  /\ call.path = <<"a", DIV>>
  /\ ~isPlainObject(Get(pre, KA))
  /\ err = InvalidPath
  /\ store = pre

(* ----------------------- the machine of scribe calls ------------------- *)

\* the value a caller of scribe passes to have the method called with args
Value(suffix, args) ==
  CASE suffix \in {"itemSet", "itemMerge", "itemMergeDeep"} ->
         Map(1, (Str("id") :> args[1]) @@ (KData :> args[2]))
    [] suffix = "arrayRemoveBy" ->
         Map(1, (Str("property") :> args[1]) @@ (Str("value") :> args[2]))
    [] OTHER -> args[1]

\* commands: every suffix on the addresses of Inputs with the values of Args;
\* commands without a marker, with a suffix that names no method (among them
\* the suffix "undefined" and the empty one), and a suffix that reads fields
\* of a value that has none
Commands ==
  UNION { { <<in[1] \o <<MARK, suffix>>, Value(suffix, in[2])>> :
            in \in Inputs(suffix) } : suffix \in Suffixes }
    \cup { <<KA, One>>, <<<<"a", DIV, "b">>, X1(1)>>,
           <<<<"a", MARK, "invalid">>, One>>,
           <<<<"a", MARK, "undefined">>, One>>,
           <<<<"a", MARK>>, One>>,
           <<<<"a", DIV, "b", MARK, "clear">>, One>>,
           <<<<"a", MARK, "itemSet">>, Null>>,
           <<<<"a", MARK, "itemSet">>, One>> }

Scribe ==
  /\ rev = "v2"
  /\ \E cmd \in Commands :
       Do("scribe", cmd[1], cmd[2], U, scribe(store, cmd[1], cmd[2]))

InitScribe == Init /\ rev = "v2"

NextScribe == Scribe

SpecScribe == InitScribe /\ [][NextScribe]_vars

(* --------------------------- claims on scribe -------------------------- *)

\* the parts the command of the last scribe call splits into at the marker
Parts == split(call.path, MARK)

NoMarker == call.method = "scribe" /\ Len(Parts) = 1

Recognized ==
  call.method = "scribe" /\ Len(Parts) >= 2
      /\ Len(Parts[2]) = 1 /\ Parts[2][1] \in Suffixes

BadSuffix == call.method = "scribe" /\ Len(Parts) >= 2 /\ ~Recognized

\* C18: scribe fails in two distinguishable ways: a command without a marker
\* raises an error that is not the one raised for a suffix naming no
\* operation, a command with a marker and such a suffix raises the
\* invalid-suffix error; in both cases no method is called, so the store is
\* as before.
C18_ScribeDistinguishesFailures ==
  /\ NoMarker =>
       /\ err # NoErr
       /\ store = pre
       /\ \A suffix \in {<<"invalid">>, <<"undefined">>, <<>>} :
            err # InvalidSuffix(suffix)
  /\ BadSuffix =>
       /\ err = InvalidSuffix(Parts[2])
       /\ store = pre

\* the payload fields of v that the method op takes after the address
payloadFields(op, v) ==
  CASE op \in {"itemSet", "itemMerge", "itemMergeDeep"} ->
         <<Get(v, Str("id")), Get(v, KData)>>
    [] op = "arrayRemoveBy" -> <<Get(v, Str("property")), Get(v, Str("value"))>>
    [] OTHER -> <<v, U>>

\* the direct call of the method the last scribe call names, on the store
\* before it
Direct ==
  invoke("v2", pre, Parts[2][1], Parts[1],
         payloadFields(Parts[2][1], call.a)[1], payloadFields(Parts[2][1], call.a)[2])

\* C19: scribe(p + marker + op, v) with a recognized suffix op (and, for the
\* suffixes that read fields of v, a v that has fields: not null) leaves the
\* store and the error that the direct call of the method op on p with the
\* payload fields of v leaves.
C19_ScribeIsDirectCall ==
  (Recognized /\ (Parts[2][1] \in FieldSuffixes => call.a \notin {Null, U})) =>
     /\ store = Direct.st
     /\ err = Direct.err

\* C19: a scribe call of a suffix that takes fields of the value has written
\* what the direct call writes
C19_Witness ==
  /\ Recognized
  /\ Parts[2][1] = "itemSet"
  /\ isPlainObject(call.a)
  /\ err = NoErr
  /\ store # pre
  /\ store = Direct.st

(* ------------------ the machine of calls through a hook ---------------- *)

\* a call on an instance constructed with a mutator
DoHooked(method, path, a, b, r) ==
  /\ n < MaxOps
  /\ store' = r.st
  /\ err' = r.err
  /\ pre' = store
  /\ call' = [Call(method, path, a, b, <<>>) EXCEPT !.hooks = r.hooks]
  /\ n' = n + 1
  /\ UNCHANGED <<rev, mutator, pending>>

\* one pair of arguments for each method, on every address of Inputs
HookedInputs(method) ==
  { in \in Inputs(method) : in[2] = CHOOSE args \in Args(method) : TRUE }

\* any of the mutation methods of v2
Mutate ==
  /\ rev = "v2"
  /\ \E method \in Suffixes : \E in \in HookedInputs(method) :
       DoHooked(method, in[1], in[2][1], in[2][2],
                mutationWith(mutator, store, method, in[1], in[2][1], in[2][2]))
  /\ UNCHANGED old

\* the stores a caller replaces the store with
NewStores == { Map(1, (KC :> One)), Map(1, (KA :> X1(1))) }

SetStore ==
  /\ rev = "v2"
  /\ \E newStore \in NewStores :
       DoHooked("setStore", <<>>, newStore, U, setStore(mutator, store, newStore))
  /\ old' = owned(mutator, store, old)

InitHook ==
  /\ rev = "v2"
  /\ mutator \in Hooks
  /\ old = U
  /\ pending = <<>>
  /\ store \in InitStores
  /\ pre = store
  /\ call = Call("new", <<>>, U, U, <<>>)
  /\ err = NoErr
  /\ n = 0

\* the steps of a batch through a hook: writes on an old and on a new root
\* key, an unknown method
HookedSteps ==
  { Step("set", KA, One, U),
    Step("set", <<"b", DIV, "c">>, X1(1), U),
    Step("nope", KA, One, U) }

\* batch(operations) on an instance whose hook calls the updater at once:
\* every step's callback runs inside its applyChange
BatchHooked ==
  /\ rev = "v2"
  /\ mutator = "immediate"
  /\ n < MaxOps
  /\ \E operations \in Lists(HookedSteps) :
       LET r == batch(rev, store, operations)
       IN  /\ store' = r.st
           /\ err' = r.err
           /\ pre' = store
           /\ call' = Call("batch", <<>>, U, U, operations)
  /\ n' = n + 1
  /\ UNCHANGED <<rev, mutator, old, pending>>

NextHook == Mutate \/ SetStore \/ BatchHooked

SpecHook == InitHook /\ [][NextHook]_vars

(* ------------------------ claims on the mutator hook ------------------- *)

\* C20: on an instance constructed with a mutator, every elementary mutation
\* on a well-formed address, and setStore, calls the hook exactly once, and
\* writes to the store only inside the updater it hands to the hook: if the
\* hook does not call the updater, the store is as it was before the call,
\* the parent segments of the address included.
C20_WritesInsideUpdater ==
  (mutator \in Hooks /\ (OnAddress \/ call.method = "setStore")) =>
     /\ call.hooks = 1
     /\ mutator = "never" => store = pre

(* ------------------- further claims on elementary calls ---------------- *)

\* the container the final key of the address is a key of, after the call
ParentAfter == GetAt(store, Front(Keys))

\* C22: clear (v1) and remove (v2) on an address with a final key raise
\* nothing, whatever the key held before and also when it was absent, and
\* afterwards the final key is not a key of its parent container; the other
\* keys of a parent that was a mapping are as before.
C22_RemoveDeletesKey ==
  (call.method \in {"clear", "remove"} /\ OnAddress) =>
     /\ err = NoErr
     /\ isPlainObject(ParentAfter)
     /\ Last(Keys) \notin DOMAIN ParentAfter.kv
     /\ ParentsWereMappings =>
          store = PutAt(pre, Front(Keys), DelK(GetAt(pre, Front(Keys)), Last(Keys)))

\* C22: the key held a mapping before the call and is gone after it
C22_Witness ==
  /\ call.method \in {"clear", "remove"} /\ OnAddress
  /\ ParentsWereMappings
  /\ isPlainObject(TargetBefore)
  /\ err = NoErr
  /\ Last(Keys) \notin DOMAIN ParentAfter.kv

\* the elements of list whose value at property is not value, in their order
RECURSIVE notMatching(_, _, _)
notMatching(list, property, value) ==
  IF list = <<>> THEN <<>>
  ELSE (IF Get(Head(list), property) = value THEN <<>> ELSE <<Head(list)>>)
         \o notMatching(Tail(list), property, value)

\* C23: arrayRemoveBy(addr, property, value), value a scalar, raises nothing
\* and leaves at the address a sequence of exactly the elements of the
\* sequence before whose value at property is not value, in their order; a
\* target that was absent or not a sequence is left an empty sequence.
C23_ArrayRemoveByProperty ==
  (call.method = "arrayRemoveBy" /\ OnAddress) =>
     /\ err = NoErr
     /\ isArray(TargetAfter)
     /\ TargetAfter.el = notMatching(ElementsBefore, ToKey(call.a), call.b)

ItemMethods == {"itemSet", "itemMerge", "itemMergeDeep", "itemDelete"}

\* the mappings after and before agree on every key but k
SameBut(after, before, k) ==
  /\ isPlainObject(after)
  /\ after.o = before.o
  /\ (DOMAIN after.kv) \ {k} = (DOMAIN before.kv) \ {k}
  /\ \A j \in (DOMAIN before.kv) \ {k} : after.kv[j] = before.kv[j]

\* C25: an elementary mutation that raises nothing, on an address whose
\* parent segments all held mappings, leaves the root and every parent
\* container the mapping it was but for the next segment of the address:
\* every other root key and every sibling key at each level is as before;
\* an item method on a target that held a mapping leaves the target's other
\* items as they were.
C25_Frame ==
  (OnAddress /\ ParentsWereMappings /\ err = NoErr) =>
     /\ \A i \in 0..(Len(Keys) - 1) :
          SameBut(GetAt(store, Prefix(i)), GetAt(pre, Prefix(i)), Keys[i + 1])
     /\ \A i \in 1..(Len(Keys) - 1) : isPlainObject(GetAt(store, Prefix(i)))
     /\ (call.method \in ItemMethods /\ isPlainObject(TargetBefore)) =>
          SameBut(TargetAfter, TargetBefore, ToKey(call.a))

\* C25: a call on "a.b" that changed the store, where the mapping under a
\* held another key than b
C25_Witness ==
  /\ OnAddress /\ ParentsWereMappings /\ err = NoErr
  /\ Len(Keys) = 2
  /\ (DOMAIN GetAt(pre, Prefix(1)).kv) \ {Keys[2]} # {}
  /\ store # pre
  /\ SameBut(GetAt(store, Prefix(1)), GetAt(pre, Prefix(1)), Keys[2])

(* ------------------ the machine of a hook that defers ------------------ *)
(* The hook keeps every updater it is handed and calls them, in the order  *)
(* it got them, after batch has returned.                                  *)

\* an updater in the hook's hands: the callback of the method, closed over
\* the target getTarget resolved (tp: the keys from the root to it) and the
\* final key; live: the target is still the object under tp in this.store
Updater(method, tp, fk, a, b) ==
  [method |-> method, tp |-> tp, fk |-> fk, a |-> a, b |-> b, live |-> TRUE]

\* the steps of a batch so far: the store, the error thrown, the hook's queue
Deferred(st, err_, queue) == [st |-> st, err |-> err_, queue |-> queue]

\* one step of the forEach: getTarget has returned g (the walk has written
\* the parent segments), applyChange hands the callback to the hook
stepDeferred(d, op, g) ==
  IF op.method \notin Functions("v2")
    THEN Deferred(d.st, InvalidMethod(op.method), d.queue)
  ELSE IF g.err # NoErr THEN Deferred(g.st, g.err, d.queue)
  ELSE Deferred(g.st, NoErr,
                Append(d.queue, Updater(op.method, g.tp, g.fk, op.a, op.b)))

RECURSIVE forEachDeferred(_, _)
forEachDeferred(d, operations) ==
  IF operations = <<>> \/ d.err # NoErr THEN d
  ELSE forEachDeferred(
         stepDeferred(d, Head(operations), getTarget(d.st, Head(operations).arg0.s)),
         Tail(operations))

\* the rollback assigns or deletes this.store[key] for every affected key:
\* a target that was reached through such a key is in the store no more
released(queue, affectedKeys) ==
  [i \in 1..Len(queue) |->
     IF queue[i].tp # <<>> /\ queue[i].tp[1] \in affectedKeys
       THEN [queue[i] EXCEPT !.live = FALSE] ELSE queue[i]]

catchDeferred(d, affectedKeys, originalStore) ==
  IF d.err = NoErr THEN d
  ELSE Deferred(rollback(d.st, affectedKeys, originalStore), BatchFailed(d.err),
                released(d.queue, affectedKeys))

\* batch(operations) of elementary steps on an instance with such a hook
batchDeferred(st, operations) ==
  catchDeferred(forEachDeferred(Deferred(st, NoErr, <<>>), operations),
                batchKeys(operations), snapshot(st, batchKeys(operations)))

\* the callback of set, remove, merge, arrayAppend assigns or deletes
\* target[finalKey]: a target that was reached through the value there is
\* in the store no more
detached(queue, addr) ==
  [i \in 1..Len(queue) |->
     IF Len(queue[i].tp) >= Len(addr) /\ SubSeq(queue[i].tp, 1, Len(addr)) = addr
       THEN [queue[i] EXCEPT !.live = FALSE] ELSE queue[i]]

\* a hook that drops the updaters it kept
runNothing(st, queue) == st

\* the hook calls the updaters it kept: each writes to the target it closed
\* over, which is part of the store only if live
RECURSIVE run(_, _)
run(st, queue) ==
  IF queue = <<>> THEN st
  ELSE IF ~Head(queue).live THEN run(st, Tail(queue))
  ELSE run(PutAt(st, Head(queue).tp,
                 change(Head(queue).method, GetAt(st, Head(queue).tp),
                        Head(queue).fk, Head(queue).a, Head(queue).b).t),
           detached(Tail(queue), Append(Head(queue).tp, Head(queue).fk)))

\* steps whose callbacks assign or delete target[finalKey] and do not throw,
\* an unknown method, a malformed address
DeferredSteps ==
  { Step("set", KA, One, U),
    Step("set", <<"b", DIV, "c">>, X1(1), U),
    Step("merge", KA, X1(1), U),
    Step("arrayAppend", <<"a", DIV, "b">>, Mixed, U),
    Step("remove", KB, U, U),
    Step("set", <<"c", DIV>>, One, U),
    Step("nope", KA, One, U) }

BatchDeferred ==
  /\ mutator = "deferred"
  /\ call.method = "new"
  /\ \E operations \in Lists(DeferredSteps) :
       LET d == batchDeferred(store, operations)
       IN  /\ store' = d.st
           /\ err' = d.err
           /\ pending' = d.queue
           /\ pre' = store
           /\ call' = Call("batch", <<>>, U, U, operations)
  /\ UNCHANGED <<rev, mutator, old, n>>

\* after batch has returned, the hook calls the updaters; pre, err and the
\* steps stay those of the batch
Flush ==
  /\ mutator = "deferred"
  /\ pending # <<>>
  /\ store' = run(store, pending)
  /\ pending' = <<>>
  /\ call' = [call EXCEPT !.method = "flush"]
  /\ UNCHANGED <<rev, mutator, old, pre, err, n>>

InitDeferred ==
  /\ rev = "v2"
  /\ mutator = "deferred"
  /\ old = U
  /\ pending = <<>>
  /\ store \in InitStores
  /\ pre = store
  /\ call = Call("new", <<>>, U, U, <<>>)
  /\ err = NoErr
  /\ n = 0

NextDeferred == BatchDeferred \/ Flush

SpecDeferred == InitDeferred /\ [][NextDeferred]_vars

(* --------------------------- claims on setStore ------------------------ *)

\* C21: with a hook that calls the updater, setStore(s) calls the hook
\* once and leaves s the store and the object owned before as it was; from
\* then on every mutation is a mutation of s (the root object stays s, the
\* store after is the method's outcome on the store before), a batch takes
\* its copies from s and restores s when a step fails, and the object owned
\* before is never written again.
C21_SetStoreSwaps ==
  [][ mutator = "immediate" =>
        /\ call'.method = "setStore" =>
             /\ call'.hooks = 1
             /\ store' = call'.a
             /\ old' = store
        /\ (call'.method \in Suffixes /\ old # U) =>
             /\ old' = old
             /\ store'.o = store.o
             /\ store' = mutation(store, call'.method, call'.path,
                                  call'.a, call'.b).st
        /\ (call'.method = "batch" /\ old # U) =>
             /\ old' = old
             /\ store'.o = store.o
             /\ err' # NoErr =>
                  (DOMAIN store'.kv = DOMAIN store.kv /\ DeepEq(store', store))
             /\ err' = NoErr => store' = oneAtATime(rev, store, call'.ops).st ]_vars

\* C21: a mutation has written into the replacement store, the store owned
\* before the swap is kept as it was
C21_Witness ==
  /\ mutator = "immediate"
  /\ call.method \in Suffixes /\ err = NoErr
  /\ old \in InitStores
  /\ pre \in NewStores
  /\ store # pre
  /\ store.o = 1

(* ----------------------- claims on a deferring hook -------------------- *)

\* the step passes getTarget and reaches applyChange
Reaches(op) == op.method \in Suffixes /\ Last(split(op.arg0.s, DIV)) # <<>>

\* the writes of the steps before the first that fails whose address is a
\* root key, made one after the other on st
RECURSIVE rootWrites(_, _)
rootWrites(st, operations) ==
  IF operations = <<>> \/ ~Reaches(Head(operations)) THEN st
  ELSE rootWrites(
         IF Len(split(Head(operations).arg0.s, DIV)) = 1
           THEN direct("v2", st, Head(operations)).st ELSE st,
         Tail(operations))

\* C24: with a hook that calls the updaters after batch has returned, a
\* batch that failed has restored the store when it reports the failure,
\* and once the hook has called the updaters the store is the store before
\* the batch with the writes of the steps addressed at root keys made on it
\* (the targets of the other steps were replaced by the rollback): the
\* failed batch's writes are in the store.
C24_DeferredWriteAfterRollback ==
  (mutator = "deferred" /\ err # NoErr) =>
     /\ call.method = "batch" => Restored
     /\ call.method = "flush" => store = rootWrites(pre, call.ops)

\* C24: a failed batch has been reported, the hook has called the updaters
\* and the store is not what it was before the batch
C24_Witness ==
  /\ mutator = "deferred"
  /\ call.method = "flush"
  /\ EndsWith(err, InvalidMethod("nope"))
  /\ ~DeepEq(store, pre)

====
